---- MODULE Spec2Model ----
(***************************************************************************)
(* Model of the netflix-clone backend: the review store, the profiles'     *)
(* "My List", the content corpus, and the request handlers that read and   *)
(* write them, with the recommendation engine                              *)
(* (recommendationService.getRecommendationsForProfile) computed as the    *)
(* code computes it.  Every handler is one action; `resp` is the HTTP      *)
(* response of the request being answered and `call` records what that     *)
(* request did with the engine.                                            *)
(*                                                                         *)
(* Numbers: scores are kept as integers scaled by ScoreScale; the          *)
(* logarithm of natural's idf is tabulated (IdfTable).                     *)
(***************************************************************************)
EXTENDS Integers, Sequences, FiniteSets, TLC

VARIABLES reviews, profiles, resp, call, probe, tasks, contentDocs

vars == <<reviews, profiles, resp, call, probe, tasks, contentDocs>>

(***************************************************************************)
(* Bounds of the model.                                                    *)
(***************************************************************************)
\* The Review collection holds at most MaxReviews documents.
MaxReviews == 2
\* A profile's myList holds at most MaxListLen entries.
MaxListLen == 1
\* At most MaxTasks requests are in flight together.
MaxTasks == 2

(***************************************************************************)
(* Input sets.                                                             *)
(***************************************************************************)
Users == {"u1", "u2"}
ProfileIds == {"p1", "p2"}
\* Profile ids a read request may carry: the stored ones and one that is not.
RequestProfileIds == ProfileIds \cup {"p0"}
\* Profile ids a write request may carry: reviews and list entries are written
\* to profile p1 only.
WriteProfileIds == {"p1", "p0"}
\* The ids of the documents of the Content collection.
ContentIds == 1..4
\* The ids of the content records the model knows: the stored documents and
\* three records a Content collection can hold as well (see Content).
CatalogIds == 1..7
\* Content ids a request may carry: the stored ones and one that is not stored.
RequestContentIds == ContentIds \cup {0}
\* Ratings a request body may carry.  A rating is a JavaScript Number and is
\* written in tenths: 20 is the rating 2, 35 the rating 3.5.  0 is outside
\* the schema's 1..5.
RatingInputs == {0, 20, 30, 50}
\* req.query.limit as sent: absent, or a string.
LimitQueries == {"absent", "1", "2", "0"}
\* req.query.type as sent: absent, a content type, or an unknown word.
TypeQueries == {"absent", "movie", "bogus"}
\* The database read of a recommendation request that fails, if any.
FailPoints == {"none", "reviews", "corpus"}

(***************************************************************************)
(* The content corpus (Content collection).  Ids 1..4 are the items R, A,  *)
(* B, C: R carries genres Action and Drama and keyword heist; A is Action  *)
(* with keyword heist, popularity 50; B is Comedy, popularity 900; C is    *)
(* Drama, popularity 10.  R and A have the same popularity.                *)
(* Ids 5..7 are records the schema admits and the engine can be given:     *)
(* 5 has no genre and no keyword, 6 lists the genre Action four times, 7   *)
(* carries four genres, the one of smallest id last.                       *)
(***************************************************************************)
Action == 28
Drama == 18
Comedy == 35
Thriller == 53
Heist == 10051

GenreName(g) ==
    CASE g = Action -> "action"
      [] g = Drama -> "drama"
      [] g = Comedy -> "comedy"
      [] g = Thriller -> "thriller"

KeywordName(k) ==
    CASE k = Heist -> "heist"

Content ==
    [c \in CatalogIds |->
        CASE c = 1 -> [type |-> "movie", title |-> <<"vault">>,
                       overview |-> <<"crew", "robs", "bank">>,
                       genres |-> <<Action, Drama>>, keywords |-> <<Heist>>,
                       popularity |-> 50]
          [] c = 2 -> [type |-> "movie", title |-> <<"score">>,
                       overview |-> <<"crew", "bank">>,
                       genres |-> <<Action>>, keywords |-> <<Heist>>,
                       popularity |-> 50]
          [] c = 3 -> [type |-> "tv", title |-> <<"laughs">>,
                       overview |-> <<"party">>,
                       genres |-> <<Comedy>>, keywords |-> <<>>,
                       popularity |-> 900]
          [] c = 4 -> [type |-> "tv", title |-> <<"tears">>,
                       overview |-> <<"family">>,
                       genres |-> <<Drama>>, keywords |-> <<>>,
                       popularity |-> 10]
          [] c = 5 -> [type |-> "movie", title |-> <<"plain">>,
                       overview |-> <<"story">>,
                       genres |-> <<>>, keywords |-> <<>>,
                       popularity |-> 20]
          [] c = 6 -> [type |-> "movie", title |-> <<"blast">>,
                       overview |-> <<"chase">>,
                       genres |-> <<Action, Action, Action, Action>>,
                       keywords |-> <<>>,
                       popularity |-> 4]
          [] c = 7 -> [type |-> "tv", title |-> <<"mix">>,
                       overview |-> <<"anthology">>,
                       genres |-> <<Thriller, Comedy, Action, Drama>>,
                       keywords |-> <<>>,
                       popularity |-> 30]]

\* Owner of each stored profile (Profile.owner).
ProfileOwner == [p \in ProfileIds |-> IF p = "p1" THEN "u1" ELSE "u2"]

(***************************************************************************)
(* Sequences.                                                              *)
(***************************************************************************)
Range(s) == {s[i] : i \in DOMAIN s}

Max(a, b) == IF a >= b THEN a ELSE b
Min(a, b) == IF a <= b THEN a ELSE b

\* Array.prototype.slice(0, end).
Slice0(s, end) ==
    LET e == IF end < 0 THEN Max(Len(s) + end, 0) ELSE Min(end, Len(s))
    IN  SubSeq(s, 1, e)

\* Array.prototype.includes.
Includes(s, x) == \E i \in DOMAIN s : s[i] = x

\* Array.prototype.filter(y => y !== x).
RECURSIVE Without(_, _)
Without(s, x) ==
    IF s = <<>> THEN <<>>
    ELSE IF Head(s) = x THEN Without(Tail(s), x)
    ELSE <<Head(s)>> \o Without(Tail(s), x)

\* x put into s, which is sorted by key descending, behind every element whose
\* key is not smaller: one step of a stable sort.
RECURSIVE InsertDesc(_, _, _)
InsertDesc(s, x, key) ==
    IF s = <<>> THEN <<x>>
    ELSE IF key[Head(s)] >= key[x] THEN <<Head(s)>> \o InsertDesc(Tail(s), x, key)
    ELSE <<x>> \o s

\* Array.prototype.sort((a, b) => key(b) - key(a)): stable, descending.
RECURSIVE SortDesc(_, _)
SortDesc(s, key) ==
    IF s = <<>> THEN <<>>
    ELSE InsertDesc(SortDesc(SubSeq(s, 1, Len(s) - 1), key), s[Len(s)], key)

(***************************************************************************)
(* natural's TfIdf, as the engine uses it.  A document is the list of its  *)
(* tokens; the vocabulary of the corpus has no stop words and is lower     *)
(* case, so tokenizing a text leaves it as it is.                          *)
(***************************************************************************)
\* Scores are integers: the real score times ScoreScale.
ScoreScale == 100000

\* docText of a content document: title, overview, genre names, keyword names.
DocText(c) ==
    Content[c].title \o Content[c].overview
        \o [i \in DOMAIN Content[c].genres |-> GenreName(Content[c].genres[i])]
        \o [i \in DOMAIN Content[c].keywords |-> KeywordName(Content[c].keywords[i])]

\* tf(term, document): the number of occurrences of the term in the document.
Tf(term, document) == Cardinality({i \in DOMAIN document : document[i] = term})

\* ScoreScale * (1 + ln(n / (1 + df))), rounded, for n documents of which df
\* hold the term.
IdfTable ==
    [n \in 1..4 |->
        CASE n = 1 -> [df \in 0..4 |-> CASE df = 0 -> 100000 [] OTHER -> 30685]
          [] n = 2 -> [df \in 0..4 |-> CASE df = 0 -> 169315 [] df = 1 -> 100000
                                         [] OTHER -> 59453]
          [] n = 3 -> [df \in 0..4 |-> CASE df = 0 -> 209861 [] df = 1 -> 140547
                                         [] df = 2 -> 100000 [] OTHER -> 71232]
          [] n = 4 -> [df \in 0..4 |-> CASE df = 0 -> 238629 [] df = 1 -> 169315
                                         [] df = 2 -> 128768 [] df = 3 -> 100000
                                         [] OTHER -> 77686]]

\* TfIdf.idf(term).
Idf(term, documents) ==
    IdfTable[Len(documents)]
            [Cardinality({d \in DOMAIN documents : Includes(documents[d], term)})]

\* TfIdf.tfidf(terms, d): the sum over the terms of tf * idf in document d.
RECURSIVE Tfidf(_, _, _)
Tfidf(terms, d, documents) ==
    IF terms = <<>> THEN 0
    ELSE Tf(Head(terms), documents[d]) * Idf(Head(terms), documents)
            + Tfidf(Tail(terms), d, documents)

\* TfIdf.tfidfs(terms, callback) computes the measure of every document and,
\* when callback is truthy, calls callback(i, measure, key) for each.  The
\* engine passes the index of a liked item as callback: index 0 is falsy and
\* the array of measures is returned; any other index is truthy and not a
\* function, so the call throws a TypeError on the first document.
TfidfsThrows(index, documents) == index # 0 /\ Len(documents) > 0

\* The loop likedContent.forEach((likedItem, index) => ...) of one candidate:
\* whether it throws, and totalSimilarity / maxSimilarity after it.  It
\* completes only with a single liked item, where similarity is the
\* one-element array [x]: 0 + [x] is the string "0x", which divides as the
\* number x, and Math.max(0, [x]) is max(0, x).
SimilarityLoop(c, documents) ==
    LET x == Tfidf(DocText(c), 1, documents)
    IN  [threw |-> \E index \in 0..(Len(documents) - 1) : TfidfsThrows(index, documents),
         totalSimilarity |-> x,
         maxSimilarity |-> Max(0, x)]

(***************************************************************************)
(* recommendationService.getRecommendationsForProfile(profileId, limit).   *)
(* The service takes two parameters; a third argument is dropped.          *)
(***************************************************************************)
Popularity == [c \in CatalogIds |-> Content[c].popularity]

\* A limit that lets one more document through.
MongoLimit_OneMore(s, n) == SubSeq(s, 1, Min(n + 1, Len(s)))

\* Query.limit(n) of a find: 0 is no limit, a negative n is sent as -n.
MongoLimit(s, n) ==
    IF n = 0 THEN s
    ELSE SubSeq(s, 1, Min(IF n < 0 THEN -n ELSE n, Len(s)))

\* Content.find().sort({ popularity: -1 }).limit(limit), the collection being
\* read in the order `natural`: documents of equal popularity keep that order.
PopularContent(natural, limit) == MongoLimit(SortDesc(natural, Popularity), limit)

\* profileReviews.filter(review => review.rating >= 3).map(review => review.content)
likedContentOf(profileReviews) ==
    LET Liked(review) == review.rating >= 30
        liked == SelectSeq(profileReviews, Liked)
    IN  [i \in DOMAIN liked |-> liked[i].content]

\* The genre ids (keyword ids) of the liked items, in the order the two
\* forEach loops visit them.
RECURSIVE GenreIdsOf(_)
GenreIdsOf(likedContent) ==
    IF likedContent = <<>> THEN <<>>
    ELSE Content[Head(likedContent)].genres \o GenreIdsOf(Tail(likedContent))

RECURSIVE KeywordIdsOf(_)
KeywordIdsOf(likedContent) ==
    IF likedContent = <<>> THEN <<>>
    ELSE Content[Head(likedContent)].keywords \o KeywordIdsOf(Tail(likedContent))

\* The keys of a Map filled by visiting ids: each id once, in insertion order.
RECURSIVE MapKeys(_)
MapKeys(ids) ==
    IF ids = <<>> THEN <<>>
    ELSE LET init == MapKeys(SubSeq(ids, 1, Len(ids) - 1))
         IN  IF Includes(init, ids[Len(ids)]) THEN init ELSE Append(init, ids[Len(ids)])

\* [...map.entries()].sort((a, b) => b[1] - a[1]).map(entry => entry[0]) of the
\* Map that counts the ids.
\* The values of that Map: map.set(id, (map.get(id) || 0) + 1) for every id
\* visited.
MapCounts(ids) == [k \in Range(ids) |-> Tf(k, ids)]

SortedByCount(ids) == SortDesc(MapKeys(ids), MapCounts(ids))

sortedGenresOf(likedContent) == SortedByCount(GenreIdsOf(likedContent))
sortedKeywordsOf(likedContent) == SortedByCount(KeywordIdsOf(likedContent))

\* profileReviews.map(review => review.content._id.toString())
reviewedContentIdsOf(profileReviews) ==
    [i \in DOMAIN profileReviews |-> profileReviews[i].content]

\* allContentOf that keeps only the content sharing a genre with a reviewed
\* content.
allContentOf_SharedGenreOnly(natural, reviewedContentIds) ==
    LET Kept(c) ==
            /\ ~Includes(reviewedContentIds, c)
            /\ \E i \in DOMAIN reviewedContentIds :
                   Range(Content[c].genres)
                       \cap Range(Content[reviewedContentIds[i]].genres) # {}
    IN  SelectSeq(natural, Kept)

\* allContentOf without the $nin condition.
allContentOf_NoExclusion(natural, reviewedContentIds) == natural

\* Content.find({ _id: { $nin: reviewedContentIds } }), the collection being
\* read in the order `natural`.
allContentOf(natural, reviewedContentIds) ==
    LET NotIn(c) == ~Includes(reviewedContentIds, c)
    IN  SelectSeq(natural, NotIn)

\* +0.2 for each genre of the content that is among the first three sortedGenres.
genreBonus(c, sortedGenres) ==
    ((2 * ScoreScale) \div 10)
        * Cardinality({i \in DOMAIN Content[c].genres :
                          Includes(Slice0(sortedGenres, 3), Content[c].genres[i])})

\* +0.1 for each keyword of the content that is among the first five sortedKeywords.
keywordBonus(c, sortedKeywords) ==
    (ScoreScale \div 10)
        * Cardinality({i \in DOMAIN Content[c].keywords :
                          Includes(Slice0(sortedKeywords, 5), Content[c].keywords[i])})

\* popularityFactor kept between 0 and 0.5.
popularityFactor_Capped(c) ==
    Min((Content[c].popularity * ScoreScale) \div 20, ScoreScale \div 2)

\* content.popularity / 20
popularityFactor(c) == (Content[c].popularity * ScoreScale) \div 20

\* avgSimilarity + maxSimilarity + genreBonus + keywordBonus + popularityFactor
score(c, likedContent) ==
    LET documents == [i \in DOMAIN likedContent |-> DocText(likedContent[i])]
        loop == SimilarityLoop(c, documents)
        avgSimilarity == IF Len(likedContent) > 0
                         THEN loop.totalSimilarity \div Len(likedContent)
                         ELSE 0
    IN  avgSimilarity + loop.maxSimilarity
            + genreBonus(c, sortedGenresOf(likedContent))
            + keywordBonus(c, sortedKeywordsOf(likedContent))
            + popularityFactor(c)

\* recommendationsOf without the sort.
recommendationsOf_Unsorted(allContent, scores, limit) == Slice0(allContent, limit)

\* scoredContent.sort((a, b) => b.score - a.score).slice(0, limit)
\*              .map(item => item.content)
recommendationsOf(allContent, scores, limit) ==
    Slice0(SortDesc(allContent, scores), limit)

\* review.content of a review whose content document no longer exists:
\* populate('content') leaves null.
NullContent == 0

\* The test whether the liked content carries no genre and no keyword.
NoLikedContent_NoWeights(likedContent) ==
    \A i \in DOMAIN likedContent :
        likedContent[i] # NullContent =>
            /\ Content[likedContent[i]].genres = <<>>
            /\ Content[likedContent[i]].keywords = <<>>

\* likedContent.length === 0
NoLikedContent(likedContent) == Len(likedContent) = 0

\* Some review of the list has a null content.
HasNullContent(profileReviews) ==
    \E i \in DOMAIN profileReviews : profileReviews[i].content = NullContent

\* What an invocation does.
Threw == [outcome |-> "threw", branch |-> "none", recommendations |-> <<>>]
Returned(branch, list) ==
    [outcome |-> "returned", branch |-> branch, recommendations |-> list]

\* getRecommendationsForProfile with a catch that returns the popular content,
\* read without error, instead of throwing.
getRecommendationsForProfile_Degrading(profileReviews, natural, limit, fail) ==
    Returned("none", PopularContent(natural, limit))

\* The body of the try block, and its catch, which throws
\* Error('Failed to generate recommendations').  profileReviews is what
\* Review.find({ profile: profileId }).populate('content') returned, natural
\* the order in which the Content query read the collection, fail the read
\* that rejects, if any.  Past the two early returns the code reads
\* content.genres of every liked content and review.content._id of every
\* review, which throws a TypeError on a null content.
getRecommendationsForProfile(profileReviews, natural, limit, fail) ==
    IF fail = "reviews" THEN Threw
    ELSE IF Len(profileReviews) = 0
    THEN IF fail = "corpus" THEN Threw
         ELSE Returned("noReviews", PopularContent(natural, limit))
    ELSE LET likedContent == likedContentOf(profileReviews)
         IN  IF NoLikedContent(likedContent)
             THEN IF fail = "corpus" THEN Threw
                  ELSE Returned("noLiked", PopularContent(natural, limit))
             ELSE LET allContent ==
                          allContentOf(natural, reviewedContentIdsOf(profileReviews))
                      documents == [i \in DOMAIN likedContent |-> DocText(likedContent[i])]
                      scores == [c \in Range(allContent) |-> score(c, likedContent)]
                  IN  IF HasNullContent(profileReviews) THEN Threw
                      ELSE IF fail = "corpus" THEN Threw
                      ELSE IF \E i \in DOMAIN allContent :
                                  SimilarityLoop(allContent[i], documents).threw
                      THEN Threw
                      ELSE Returned("scored", recommendationsOf(allContent, scores, limit))

(***************************************************************************)
(* State.                                                                  *)
(*   reviews   the Review collection: records user, profile, content,      *)
(*             rating.  The unique index on (user, profile, content) makes  *)
(*             the three a key, and the model uses it as the review's _id.  *)
(*   profiles  the Profile collection: owner and myList of each profile     *)
(*   resp      the response to the request being answered; status 0 when    *)
(*             no request is being answered                                 *)
(*   call      what that request did with the recommendation engine: the    *)
(*             arguments it passed, the read that failed, and whether the   *)
(*             engine returned or threw                                     *)
(*   probe     an invocation of the engine on given documents, with what    *)
(*             it returned (EngineSpec only)                                *)
(*   tasks     the requests in flight of the specifications that let        *)
(*             handlers interleave at their awaits: for each, the handler,  *)
(*             the await it stands before, its arguments and the documents  *)
(*             it has read                                                  *)
(*   contentDocs  the fields of the Content documents that are rewritten:   *)
(*             popularity and featured                                      *)
(* In Spec requests are handled one after another: a handler runs when the *)
(* response to the previous request has been sent.                         *)
(***************************************************************************)
Response(handler, status, data) ==
    [handler |-> handler, status |-> status, data |-> data]

NoResponse == Response("none", 0, <<>>)

NoCall ==
    [invoked |-> FALSE, profileId |-> "none", limit |-> 0, type |-> "none",
     fail |-> "none", outcome |-> "none", branch |-> "none"]

\* No direct invocation of the engine is under way (see EngineSpec).
NoProbe ==
    [applied |-> FALSE, profileReviews |-> <<>>, natural |-> <<>>, limit |-> 0,
     outcome |-> "none", branch |-> "none", recommendations |-> <<>>]

\* The requests that can be in flight together.
Tasks == 1..MaxTasks

\* No request in flight.  `stale` says that the document the request has read
\* was written since (its __v no longer is the one read); status 0 says that
\* the request has not been answered.
NoTask ==
    [handler |-> "none", pc |-> "idle", user |-> "none", profileId |-> "none",
     contentId |-> 0, rating |-> 0, id |-> <<>>, name |-> "none", list |-> <<>>,
     stale |-> FALSE, alone |-> FALSE, status |-> 0]

Init ==
    /\ reviews = {}
    /\ profiles = [p \in ProfileIds |->
                      [owner |-> ProfileOwner[p], name |-> "main", myList |-> <<>>]]
    /\ resp = NoResponse
    /\ call = NoCall
    /\ probe = NoProbe
    /\ tasks = [t \in Tasks |-> NoTask]
    /\ contentDocs = [c \in CatalogIds |->
                         [popularity |-> Content[c].popularity, featured |-> FALSE]]

\* Profile.findOne({ _id: profileId, owner: req.user._id }) finds a profile.
\* (Handlers name the owning user `owner` or `user`; the model has one field.)
ProfileFound(profileId, u) ==
    profileId \in DOMAIN profiles /\ profiles[profileId].owner = u

\* Content.findById(contentId) finds a document.
ContentFound(contentId) == contentId \in ContentIds

\* The schema's validation of rating: type Number, min 1, max 5 (in tenths).
RatingValid(rating) == rating >= 10 /\ rating <= 50

\* parseInt(limit) of `const { type, limit = 10 } = req.query`.
ParseInt(limitQuery) ==
    CASE limitQuery = "absent" -> 10
      [] limitQuery = "1" -> 1
      [] limitQuery = "2" -> 2
      [] limitQuery = "0" -> 0

\* The _id of the review of a (user, profile, content).
ReviewId(r) == <<r.user, r.profile, r.content>>

\* Review ids a request may carry.
RequestReviewIds == {<<ProfileOwner[p], p, c>> : p \in {"p1"}, c \in ContentIds}

\* Review.find() without the profile condition.
ReviewsOfProfile_AnyProfile(profileId) == reviews

\* Review.find({ profile: profileId }) that also yields a review of rating 3
\* for every entry of the profile's myList.
ReviewsOfProfile_WithMyList(profileId) ==
    {r \in reviews : r.profile = profileId}
        \cup {[user |-> profiles[profileId].owner, profile |-> profileId,
                content |-> profiles[profileId].myList[i], rating |-> 30] :
                    i \in DOMAIN profiles[profileId].myList}

\* The reviews Review.find({ profile: profileId }) matches.
ReviewsOfProfile(profileId) == {r \in reviews : r.profile = profileId}

\* The documents of a set in ascending order of key.
RECURSIVE Ascending(_, _)
Ascending(S, key) ==
    IF S = {} THEN <<>>
    ELSE LET first == CHOOSE x \in S : \A y \in S : key[x] <= key[y]
         IN  <<first>> \o Ascending(S \ {first}, key)

Reverse(s) == [i \in DOMAIN s |-> s[Len(s) + 1 - i]]

\* A find returns the matching documents in an order the store chooses.  The
\* model lets a read hand them out in ascending or in descending id order.
ReadOrders(S, key) == {Ascending(S, key), Reverse(Ascending(S, key))}

ContentKey == [c \in CatalogIds |-> c]
ReviewKey(S) == [r \in S |-> r.content]

(***************************************************************************)
(* GET /api/recommendations/:profileId                                     *)
(***************************************************************************)
\* getRecommendations that looks the profile up by _id alone.
getRecommendations_AnyOwner(u, profileId, limitQuery, typeQuery, fail) ==
    /\ resp = NoResponse
    /\ UNCHANGED <<reviews, profiles, probe, tasks, contentDocs>>
    /\ IF profileId \notin DOMAIN profiles
       THEN /\ resp' = Response("getRecommendations", 404, <<>>)
            /\ call' = NoCall
       ELSE \E profileReviews \in
                    ReadOrders(ReviewsOfProfile(profileId),
                               ReviewKey(ReviewsOfProfile(profileId))),
               natural \in ReadOrders(ContentIds, ContentKey) :
                LET r == getRecommendationsForProfile(
                             profileReviews, natural, ParseInt(limitQuery), fail)
                IN  /\ call' = [invoked |-> TRUE, profileId |-> profileId,
                                limit |-> ParseInt(limitQuery), type |-> typeQuery,
                                fail |-> fail,
                                outcome |-> r.outcome, branch |-> r.branch]
                    /\ resp' = IF r.outcome = "threw"
                               THEN Response("getRecommendations", 500, <<>>)
                               ELSE Response("getRecommendations", 200, r.recommendations)

\* getRecommendations that stores the head of the computed list in the
\* profile's myList.
getRecommendations_Persisting(u, profileId, limitQuery, typeQuery, fail) ==
    /\ resp = NoResponse
    /\ UNCHANGED <<reviews, probe, tasks, contentDocs>>
    /\ IF ~ProfileFound(profileId, u)
       THEN /\ resp' = Response("getRecommendations", 404, <<>>)
            /\ call' = NoCall
            /\ UNCHANGED profiles
       ELSE \E profileReviews \in
                    ReadOrders(ReviewsOfProfile(profileId),
                               ReviewKey(ReviewsOfProfile(profileId))),
               natural \in ReadOrders(ContentIds, ContentKey) :
                LET r == getRecommendationsForProfile(
                             profileReviews, natural, ParseInt(limitQuery), fail)
                IN  /\ call' = [invoked |-> TRUE, profileId |-> profileId,
                                limit |-> ParseInt(limitQuery), type |-> typeQuery,
                                fail |-> fail,
                                outcome |-> r.outcome, branch |-> r.branch]
                    /\ resp' = IF r.outcome = "threw"
                               THEN Response("getRecommendations", 500, <<>>)
                               ELSE Response("getRecommendations", 200, r.recommendations)
                    /\ profiles' = [profiles EXCEPT
                           ![profileId].myList = Slice0(r.recommendations, 1)]

getRecommendations(u, profileId, limitQuery, typeQuery, fail) ==
    /\ resp = NoResponse
    /\ UNCHANGED <<reviews, profiles, probe, tasks, contentDocs>>
    /\ IF ~ProfileFound(profileId, u)
       THEN /\ resp' = Response("getRecommendations", 404, <<>>)
            /\ call' = NoCall
       ELSE \E profileReviews \in
                    ReadOrders(ReviewsOfProfile(profileId),
                               ReviewKey(ReviewsOfProfile(profileId))),
               natural \in ReadOrders(ContentIds, ContentKey) :
                LET r == getRecommendationsForProfile(
                             profileReviews, natural, ParseInt(limitQuery), fail)
                IN  /\ call' = [invoked |-> TRUE, profileId |-> profileId,
                                limit |-> ParseInt(limitQuery), type |-> typeQuery,
                                fail |-> fail,
                                outcome |-> r.outcome, branch |-> r.branch]
                    /\ resp' = IF r.outcome = "threw"
                               THEN Response("getRecommendations", 500, <<>>)
                               ELSE Response("getRecommendations", 200, r.recommendations)

(***************************************************************************)
(* POST /api/reviews, PUT /api/reviews/:id, DELETE /api/reviews/:id        *)
(***************************************************************************)
createReview(u, contentId, profileId, rating) ==
    /\ resp = NoResponse
    /\ UNCHANGED <<profiles, probe, tasks, contentDocs>>
    /\ call' = NoCall
    /\ IF ~ContentFound(contentId) \/ ~ProfileFound(profileId, u)
       THEN /\ resp' = Response("createReview", 404, <<>>)
            /\ UNCHANGED reviews
       ELSE IF \E r \in reviews :
                   r.user = u /\ r.profile = profileId /\ r.content = contentId
       THEN /\ resp' = Response("createReview", 400, <<>>)
            /\ UNCHANGED reviews
       ELSE IF ~RatingValid(rating)
       THEN /\ resp' = Response("createReview", 500, <<>>)
            /\ UNCHANGED reviews
       ELSE /\ Cardinality(reviews) < MaxReviews
            /\ reviews' = reviews \cup
                   {[user |-> u, profile |-> profileId,
                     content |-> contentId, rating |-> rating]}
            /\ resp' = Response("createReview", 201, <<>>)

\* The rating of a request body that carries none.
NoRating == -1

updateReview(u, id, rating) ==
    /\ resp = NoResponse
    /\ UNCHANGED <<profiles, probe, tasks, contentDocs>>
    /\ call' = NoCall
    /\ IF ~\E r \in reviews : ReviewId(r) = id
       THEN /\ resp' = Response("updateReview", 404, <<>>)
            /\ UNCHANGED reviews
       ELSE LET existingReview == CHOOSE r \in reviews : ReviewId(r) = id
            IN  IF existingReview.user # u
                THEN /\ resp' = Response("updateReview", 403, <<>>)
                     /\ UNCHANGED reviews
                ELSE IF rating # NoRating /\ ~RatingValid(rating)
                THEN /\ resp' = Response("updateReview", 500, <<>>)
                     /\ UNCHANGED reviews
                ELSE /\ reviews' = (reviews \ {existingReview}) \cup
                            {IF rating # NoRating
                             THEN [existingReview EXCEPT !.rating = rating]
                             ELSE existingReview}
                     /\ resp' = Response("updateReview", 200, <<>>)

\* deleteReview without the test of the review's user.
deleteReview_AnyUser(u, id) ==
    /\ resp = NoResponse
    /\ UNCHANGED <<profiles, probe, tasks, contentDocs>>
    /\ call' = NoCall
    /\ IF ~\E r \in reviews : ReviewId(r) = id
       THEN /\ resp' = Response("deleteReview", 404, <<>>)
            /\ UNCHANGED reviews
       ELSE LET review == CHOOSE r \in reviews : ReviewId(r) = id
            IN  /\ reviews' = reviews \ {review}
                /\ resp' = Response("deleteReview", 200, <<>>)

deleteReview(u, id) ==
    /\ resp = NoResponse
    /\ UNCHANGED <<profiles, probe, tasks, contentDocs>>
    /\ call' = NoCall
    /\ IF ~\E r \in reviews : ReviewId(r) = id
       THEN /\ resp' = Response("deleteReview", 404, <<>>)
            /\ UNCHANGED reviews
       ELSE LET review == CHOOSE r \in reviews : ReviewId(r) = id
            IN  IF review.user # u
                THEN /\ resp' = Response("deleteReview", 403, <<>>)
                     /\ UNCHANGED reviews
                ELSE /\ reviews' = reviews \ {review}
                     /\ resp' = Response("deleteReview", 200, <<>>)

(***************************************************************************)
(* POST /api/mylist/:profileId, DELETE /api/mylist/:profileId/:contentId   *)
(***************************************************************************)
\* The contentId of a request body that carries none.
NoContentId == -1

addToMyList(u, profileId, contentId) ==
    /\ resp = NoResponse
    /\ UNCHANGED <<reviews, probe, tasks, contentDocs>>
    /\ call' = NoCall
    /\ IF contentId = NoContentId
       THEN /\ resp' = Response("addToMyList", 400, <<>>)
            /\ UNCHANGED profiles
       ELSE IF ~ContentFound(contentId) \/ ~ProfileFound(profileId, u)
       THEN /\ resp' = Response("addToMyList", 404, <<>>)
            /\ UNCHANGED profiles
       ELSE IF Includes(profiles[profileId].myList, contentId)
       THEN /\ resp' = Response("addToMyList", 400, <<>>)
            /\ UNCHANGED profiles
       ELSE /\ Len(profiles[profileId].myList) < MaxListLen
            /\ profiles' = [profiles EXCEPT
                   ![profileId].myList = Append(profiles[profileId].myList, contentId)]
            /\ resp' = Response("addToMyList", 200, <<>>)

removeFromMyList(u, profileId, contentId) ==
    /\ resp = NoResponse
    /\ UNCHANGED <<reviews, probe, tasks, contentDocs>>
    /\ call' = NoCall
    /\ IF ~ProfileFound(profileId, u)
       THEN /\ resp' = Response("removeFromMyList", 404, <<>>)
            /\ UNCHANGED profiles
       ELSE IF ~Includes(profiles[profileId].myList, contentId)
       THEN /\ resp' = Response("removeFromMyList", 400, <<>>)
            /\ UNCHANGED profiles
       ELSE /\ profiles' = [profiles EXCEPT
                   ![profileId].myList = Without(profiles[profileId].myList, contentId)]
            /\ resp' = Response("removeFromMyList", 200, <<>>)

\* The response has been sent: the next request can be handled.
responseSent ==
    /\ resp # NoResponse
    /\ resp' = NoResponse
    /\ call' = NoCall
    /\ UNCHANGED <<reviews, profiles, probe, tasks, contentDocs>>

(***************************************************************************)
(* The engine invoked on given documents: the reviews of one profile as    *)
(* the review read returns them, and a Content collection that holds the   *)
(* whole catalog, read in the order `natural`.                             *)
(***************************************************************************)
\* The ratings of the reviews given to the engine: one below 3, one above.
ProbeRatings == {20, 50}

\* The lists of reviews Review.find({ profile }).populate('content') can
\* return: at most MaxReviews reviews, of different contents, one of them
\* possibly of a content that no longer exists, in any order.
ProbeReviewLists ==
    LET Lists(n) == {s \in [1..n -> [content : CatalogIds \cup {NullContent},
                                       rating : ProbeRatings]] :
                        \A i, j \in 1..n : i # j => s[i].content # s[j].content}
    IN  UNION {Lists(n) : n \in 0..MaxReviews}

ProbeLimits == {1, 2, 10}

invokeGetRecommendationsForProfile(profileReviews, natural, limit) ==
    /\ probe = NoProbe
    /\ LET r == getRecommendationsForProfile(profileReviews, natural, limit, "none")
       IN  probe' = [applied |-> TRUE, profileReviews |-> profileReviews,
                     natural |-> natural, limit |-> limit,
                     outcome |-> r.outcome, branch |-> r.branch,
                     recommendations |-> r.recommendations]
    /\ UNCHANGED <<reviews, profiles, resp, call, tasks, contentDocs>>

\* The invocation is over: the engine keeps nothing of it.
invocationOver ==
    /\ probe # NoProbe
    /\ probe' = NoProbe
    /\ UNCHANGED <<reviews, profiles, resp, call, tasks, contentDocs>>

EngineNext ==
    \/ \E profileReviews \in ProbeReviewLists,
          natural \in ReadOrders(CatalogIds, ContentKey), limit \in ProbeLimits :
            invokeGetRecommendationsForProfile(profileReviews, natural, limit)
    \/ invocationOver

EngineSpec == Init /\ [][EngineNext]_vars

(***************************************************************************)
(* The specification: any request, by any user, one after another.         *)
(***************************************************************************)
Next ==
    \/ \E u \in Users, profileId \in RequestProfileIds,
          limitQuery \in LimitQueries, typeQuery \in TypeQueries, fail \in FailPoints :
            getRecommendations(u, profileId, limitQuery, typeQuery, fail)
    \/ \E u \in Users, contentId \in RequestContentIds,
          profileId \in WriteProfileIds, rating \in RatingInputs :
            createReview(u, contentId, profileId, rating)
    \/ \E u \in Users, id \in RequestReviewIds, rating \in RatingInputs \cup {NoRating} :
            updateReview(u, id, rating)
    \/ \E u \in Users, id \in RequestReviewIds : deleteReview(u, id)
    \/ \E u \in Users, profileId \in WriteProfileIds,
          contentId \in RequestContentIds \cup {NoContentId} :
            addToMyList(u, profileId, contentId)
    \/ \E u \in Users, profileId \in WriteProfileIds, contentId \in RequestContentIds :
            removeFromMyList(u, profileId, contentId)
    \/ responseSent

Spec == Init /\ [][Next]_vars

(***************************************************************************)
(* Requests in flight together.  A handler is an async function: it runs   *)
(* to its next await, and the handlers of other requests run while it      *)
(* waits.  Each action below is one handler from one database call to the  *)
(* next; the request of task t is answered when tasks[t].status is set.    *)
(***************************************************************************)
\* Task t is free / stands before the await `pc` of `handler`.
Idle(t) == tasks[t] = NoTask
At(t, handler, pc) == tasks[t].handler = handler /\ tasks[t].pc = pc

\* res.status(status).json(...) of the request of task t.
Answered(t, status) == [tasks[t] EXCEPT !.pc = "done", !.status = status]

\* The response of task t has been sent.
taskAnswered(t) ==
    /\ tasks[t].pc = "done"
    /\ tasks' = [tasks EXCEPT ![t] = NoTask]
    /\ UNCHANGED <<reviews, profiles, resp, call, probe, contentDocs>>

(***************************************************************************)
(* createReview, updateReview and deleteReview in flight together.         *)
(***************************************************************************)
\* An insert without the unique index.
DuplicateKey_NoIndex(doc) == FALSE

\* ReviewSchema.index({ user: 1, profile: 1, content: 1 }, { unique: true }):
\* the insert of doc meets a stored review of the same key (E11000).
DuplicateKey(doc) ==
    \E r \in reviews :
        r.user = doc.user /\ r.profile = doc.profile /\ r.content = doc.content

\* createReview up to `await Review.create`: Content.findById,
\* Profile.findOne and Review.findOne.
createReview_find(t, u, contentId, profileId, rating) ==
    /\ Idle(t)
    /\ LET request == [NoTask EXCEPT !.handler = "createReview", !.user = u,
                           !.contentId = contentId, !.profileId = profileId,
                           !.rating = rating]
       IN  tasks' = [tasks EXCEPT ![t] =
               IF ~ContentFound(contentId) \/ ~ProfileFound(profileId, u)
               THEN [request EXCEPT !.pc = "done", !.status = 404]
               ELSE IF \E r \in reviews :
                           r.user = u /\ r.profile = profileId /\ r.content = contentId
               THEN [request EXCEPT !.pc = "done", !.status = 400]
               ELSE [request EXCEPT !.pc = "create"]]
    /\ UNCHANGED <<reviews, profiles, resp, call, probe, contentDocs>>

\* `await Review.create({...})`: validation, then the insert under the unique
\* index; an error of either is caught and answered 500.
createReview_create(t) ==
    /\ At(t, "createReview", "create")
    /\ LET doc == [user |-> tasks[t].user, profile |-> tasks[t].profileId,
                   content |-> tasks[t].contentId, rating |-> tasks[t].rating]
       IN  IF ~RatingValid(doc.rating) \/ DuplicateKey(doc)
           THEN /\ tasks' = [tasks EXCEPT ![t] = Answered(t, 500)]
                /\ UNCHANGED reviews
           ELSE /\ reviews' = reviews \cup {doc}
                /\ tasks' = [tasks EXCEPT ![t] = Answered(t, 201)]
    /\ UNCHANGED <<profiles, resp, call, probe, contentDocs>>

\* updateReview / deleteReview up to the write: Review.findById and the test
\* of the review's user.
findReview(t, handler, u, id, rating) ==
    /\ Idle(t)
    /\ LET request == [NoTask EXCEPT !.handler = handler, !.user = u, !.id = id,
                           !.rating = rating]
       IN  tasks' = [tasks EXCEPT ![t] =
               IF ~\E r \in reviews : ReviewId(r) = id
               THEN [request EXCEPT !.pc = "done", !.status = 404]
               ELSE IF \E r \in reviews : ReviewId(r) = id /\ r.user # u
               THEN [request EXCEPT !.pc = "done", !.status = 403]
               ELSE [request EXCEPT !.pc = "write"]]
    /\ UNCHANGED <<reviews, profiles, resp, call, probe, contentDocs>>

updateReview_find(t, u, id, rating) == findReview(t, "updateReview", u, id, rating)

deleteReview_find(t, u, id) == findReview(t, "deleteReview", u, id, NoRating)

\* `await existingReview.save()`: validation, then the update of the document
\* read.  When that document was removed since, the update matches nothing:
\* the store stays as it is, and save resolves or rejects by the Mongoose
\* version.
updateReview_save(t) ==
    /\ At(t, "updateReview", "write")
    /\ LET rating == tasks[t].rating
       IN  IF rating # NoRating /\ ~RatingValid(rating)
           THEN /\ tasks' = [tasks EXCEPT ![t] = Answered(t, 500)]
                /\ UNCHANGED reviews
           ELSE IF tasks[t].stale
           THEN /\ \E status \in {200, 500} :
                       tasks' = [tasks EXCEPT ![t] = Answered(t, status)]
                /\ UNCHANGED reviews
           ELSE LET stored == CHOOSE r \in reviews : ReviewId(r) = tasks[t].id
                IN  /\ reviews' = (reviews \ {stored}) \cup
                           {IF rating # NoRating
                            THEN [stored EXCEPT !.rating = rating]
                            ELSE stored}
                    /\ tasks' = [tasks EXCEPT ![t] = Answered(t, 200)]
    /\ UNCHANGED <<profiles, resp, call, probe, contentDocs>>

\* `await review.remove()`: removes the document read, if it is still there.
\* The requests that have read that document now hold a removed one.
deleteReview_remove(t) ==
    /\ At(t, "deleteReview", "write")
    /\ IF tasks[t].stale
       THEN /\ tasks' = [tasks EXCEPT ![t] = Answered(t, 200)]
            /\ UNCHANGED reviews
       ELSE /\ reviews' = {r \in reviews : ReviewId(r) # tasks[t].id}
            /\ tasks' = [o \in Tasks |->
                   IF o = t THEN Answered(t, 200)
                   ELSE IF tasks[o].pc = "write" /\ tasks[o].id = tasks[t].id
                   THEN [tasks[o] EXCEPT !.stale = TRUE]
                   ELSE tasks[o]]
    /\ UNCHANGED <<profiles, resp, call, probe, contentDocs>>

\* The contents and ratings of the review requests in flight together.
RaceContentIds == {1}
RaceReviewIds == {<<"u1", "p1", c>> : c \in RaceContentIds}
RaceRatings == {0, 20, 50}

ReviewRaceNext ==
    \E t \in Tasks :
        \/ \E u \in Users, contentId \in RaceContentIds, rating \in RaceRatings :
                createReview_find(t, u, contentId, "p1", rating)
        \/ createReview_create(t)
        \/ \E u \in Users, id \in RaceReviewIds, rating \in RaceRatings \cup {NoRating} :
                updateReview_find(t, u, id, rating)
        \/ updateReview_save(t)
        \/ \E u \in Users, id \in RaceReviewIds : deleteReview_find(t, u, id)
        \/ deleteReview_remove(t)
        \/ taskAnswered(t)

ReviewRaceSpec == Init /\ [][ReviewRaceNext]_vars

(***************************************************************************)
(* addToMyList and removeFromMyList in flight together.  profile.save()    *)
(* sends the change made to the document read: a push as $push, which      *)
(* raises the stored __v and is applied whatever it is, an assigned array  *)
(* as $set under the condition that the stored __v is the one read.        *)
(***************************************************************************)
\* The stored profile was written: the requests that have read it hold an
\* older __v.  Task t gets the answer `status`.
AfterProfileSave(t, status) ==
    [o \in Tasks |->
        IF o = t THEN Answered(t, status)
        ELSE IF tasks[o].pc = "save" /\ tasks[o].profileId = tasks[t].profileId
        THEN [tasks[o] EXCEPT !.stale = TRUE]
        ELSE tasks[o]]

\* addToMyList up to `await profile.save()`: Content.findById,
\* Profile.findOne, the includes test and the push on the document read.
addToMyList_find(t, u, profileId, contentId) ==
    /\ Idle(t)
    /\ LET request == [NoTask EXCEPT !.handler = "addToMyList", !.user = u,
                           !.profileId = profileId, !.contentId = contentId]
       IN  IF contentId = NoContentId
           THEN tasks' = [tasks EXCEPT ![t] =
                             [request EXCEPT !.pc = "done", !.status = 400]]
           ELSE IF ~ContentFound(contentId) \/ ~ProfileFound(profileId, u)
           THEN tasks' = [tasks EXCEPT ![t] =
                             [request EXCEPT !.pc = "done", !.status = 404]]
           ELSE IF Includes(profiles[profileId].myList, contentId)
           THEN tasks' = [tasks EXCEPT ![t] =
                             [request EXCEPT !.pc = "done", !.status = 400]]
           ELSE /\ Len(profiles[profileId].myList) < MaxListLen
                /\ tasks' = [tasks EXCEPT ![t] =
                       [request EXCEPT !.pc = "save",
                           !.list = Append(profiles[profileId].myList, contentId)]]
    /\ UNCHANGED <<reviews, profiles, resp, call, probe, contentDocs>>

\* `await profile.save()` of addToMyList: $push of the content id.
addToMyList_save(t) ==
    /\ At(t, "addToMyList", "save")
    /\ profiles' = [profiles EXCEPT ![tasks[t].profileId].myList =
                        Append(profiles[tasks[t].profileId].myList, tasks[t].contentId)]
    /\ tasks' = AfterProfileSave(t, 200)
    /\ UNCHANGED <<reviews, resp, call, probe, contentDocs>>

\* removeFromMyList up to `await profile.save()`: Profile.findOne, the
\* includes test and the assignment of the filtered list.
removeFromMyList_find(t, u, profileId, contentId) ==
    /\ Idle(t)
    /\ LET request == [NoTask EXCEPT !.handler = "removeFromMyList", !.user = u,
                           !.profileId = profileId, !.contentId = contentId]
       IN  tasks' = [tasks EXCEPT ![t] =
               IF ~ProfileFound(profileId, u)
               THEN [request EXCEPT !.pc = "done", !.status = 404]
               ELSE IF ~Includes(profiles[profileId].myList, contentId)
               THEN [request EXCEPT !.pc = "done", !.status = 400]
               ELSE [request EXCEPT !.pc = "save",
                        !.list = Without(profiles[profileId].myList, contentId)]]
    /\ UNCHANGED <<reviews, profiles, resp, call, probe, contentDocs>>

\* `await profile.save()` of removeFromMyList: $set of the filtered list where
\* __v is the one read; a VersionError is caught and answered 500.
removeFromMyList_save(t) ==
    /\ At(t, "removeFromMyList", "save")
    /\ IF tasks[t].stale
       THEN /\ tasks' = [tasks EXCEPT ![t] = Answered(t, 500)]
            /\ UNCHANGED profiles
       ELSE /\ profiles' = [profiles EXCEPT ![tasks[t].profileId].myList = tasks[t].list]
            /\ tasks' = AfterProfileSave(t, 200)
    /\ UNCHANGED <<reviews, resp, call, probe, contentDocs>>

MyListRaceNext ==
    \E t \in Tasks :
        \/ \E u \in Users, profileId \in WriteProfileIds,
              contentId \in RaceContentIds \cup {NoContentId} :
                addToMyList_find(t, u, profileId, contentId)
        \/ addToMyList_save(t)
        \/ \E u \in Users, profileId \in WriteProfileIds, contentId \in RaceContentIds :
                removeFromMyList_find(t, u, profileId, contentId)
        \/ removeFromMyList_save(t)
        \/ taskAnswered(t)

MyListRaceSpec == Init /\ [][MyListRaceNext]_vars

(***************************************************************************)
(* createProfile and deleteProfile in flight together.  The _id of a       *)
(* created profile is modelled by its name: the requests are those of one  *)
(* user, and the unique index on (owner, name) makes the name a key.       *)
(***************************************************************************)
\* The most profiles checkProfileLimit lets a user have.
ProfileLimit == 5

\* The profiles of user u.
ProfilesOf(u) == {p \in DOMAIN profiles : profiles[p].owner = u}

\* ProfileSchema.statics.checkProfileLimit: countDocuments({ owner }) < 5.
checkProfileLimit(u) == Cardinality(ProfilesOf(u)) < ProfileLimit

\* The body of a createProfile request without a name.
NoName == ""

\* createProfile up to `await Profile.create`: checkProfileLimit and the test
\* of the name.
createProfile_check(t, u, name) ==
    /\ Idle(t)
    /\ LET request == [NoTask EXCEPT !.handler = "createProfile", !.user = u,
                           !.name = name]
       IN  tasks' = [tasks EXCEPT ![t] =
               IF ~checkProfileLimit(u) \/ name = NoName
               THEN [request EXCEPT !.pc = "done", !.status = 400]
               ELSE [request EXCEPT !.pc = "create"]]
    /\ UNCHANGED <<reviews, profiles, resp, call, probe, contentDocs>>

\* `await Profile.create({ owner, name })`: the insert under the unique index
\* on (owner, name); a duplicate key is caught and answered 500.
createProfile_create(t) ==
    /\ At(t, "createProfile", "create")
    /\ IF \E p \in DOMAIN profiles :
              profiles[p].owner = tasks[t].user /\ profiles[p].name = tasks[t].name
       THEN /\ tasks' = [tasks EXCEPT ![t] = Answered(t, 500)]
            /\ UNCHANGED profiles
       ELSE /\ profiles' = profiles @@
                   (tasks[t].name :> [owner |-> tasks[t].user, name |-> tasks[t].name,
                                      myList |-> <<>>])
            /\ tasks' = [tasks EXCEPT ![t] = Answered(t, 201)]
    /\ UNCHANGED <<reviews, resp, call, probe, contentDocs>>

\* deleteProfile: Profile.findOneAndDelete({ _id, owner }), one database call.
deleteProfile(t, u, profileId) ==
    /\ Idle(t)
    /\ LET request == [NoTask EXCEPT !.handler = "deleteProfile", !.user = u,
                           !.profileId = profileId]
       IN  IF ProfileFound(profileId, u)
           THEN /\ profiles' = [p \in DOMAIN profiles \ {profileId} |-> profiles[p]]
                /\ tasks' = [tasks EXCEPT ![t] =
                       [request EXCEPT !.pc = "done", !.status = 200]]
           ELSE /\ tasks' = [tasks EXCEPT ![t] =
                       [request EXCEPT !.pc = "done", !.status = 404]]
                /\ UNCHANGED profiles
    /\ UNCHANGED <<reviews, resp, call, probe, contentDocs>>

\* The names createProfile requests carry, and the user who sends the
\* requests.
ProfileNames == {"kids", "guest", "teen", "adult", "tv"}
ProfileUser == "u1"

ProfileRaceNext ==
    \E t \in Tasks :
        \/ \E name \in ProfileNames \cup {"main", NoName} :
                createProfile_check(t, ProfileUser, name)
        \/ createProfile_create(t)
        \/ \E profileId \in ProfileIds \cup ProfileNames :
                deleteProfile(t, ProfileUser, profileId)
        \/ taskAnswered(t)

ProfileRaceSpec == Init /\ [][ProfileRaceNext]_vars

(***************************************************************************)
(* getFeaturedContent requests, which invoke setFeaturedContent when no    *)
(* content is featured, in flight together and with the popularity updates *)
(* of fetchAndStoreTrending.  The Content collection holds the catalog.    *)
(* Field `alone` of a task says that nothing else has written the          *)
(* collection, and no other invocation was under way, since its            *)
(* invocation of setFeaturedContent began.                                  *)
(***************************************************************************)
\* .limit(2) of the two reads of setFeaturedContent.
FeaturedPerType == 2

\* The awaits of setFeaturedContent.
InvocationPcs == {"reset", "movies", "tv", "flag"}

\* Task t moves on; the other invocations are no longer alone.
Step(t, task) ==
    [o \in Tasks |-> IF o = t THEN task ELSE [tasks[o] EXCEPT !.alone = FALSE]]

\* The ids of the featured documents.
Featured == {c \in CatalogIds : contentDocs[c].featured}

\* Content.find({ type }).sort({ popularity: -1 }).limit(2), the collection
\* being read in the order `natural`.
TopContent(type, natural) ==
    LET OfType(c) == Content[c].type = type
    IN  MongoLimit(SortDesc(SelectSeq(natural, OfType),
                            [c \in CatalogIds |-> contentDocs[c].popularity]),
                   FeaturedPerType)

\* getFeaturedContent up to `await tmdbService.setFeaturedContent()`:
\* Content.find({ featured: true }).
getFeaturedContent_find(t) ==
    /\ Idle(t)
    /\ LET request == [NoTask EXCEPT !.handler = "getFeaturedContent"]
       IN  tasks' = [tasks EXCEPT ![t] =
               IF Featured # {}
               THEN [request EXCEPT !.pc = "done", !.status = 200]
               ELSE [request EXCEPT !.pc = "reset",
                        !.alone = \A o \in Tasks : tasks[o].pc \notin InvocationPcs]]
    /\ UNCHANGED <<reviews, profiles, resp, call, probe, contentDocs>>

\* `await Content.updateMany({}, { featured: false })`.
setFeaturedContent_reset(t) ==
    /\ At(t, "getFeaturedContent", "reset")
    /\ contentDocs' = [c \in CatalogIds |-> [contentDocs[c] EXCEPT !.featured = FALSE]]
    /\ tasks' = Step(t, [tasks[t] EXCEPT !.pc = "movies"])
    /\ UNCHANGED <<reviews, profiles, resp, call, probe>>

\* `topMovies = await Content.find({ type: 'movie' })...`.
setFeaturedContent_topMovies(t, natural) ==
    /\ At(t, "getFeaturedContent", "movies")
    /\ tasks' = Step(t, [tasks[t] EXCEPT !.pc = "tv",
                            !.list = TopContent("movie", natural)])
    /\ UNCHANGED <<reviews, profiles, resp, call, probe, contentDocs>>

\* `topTv = await Content.find({ type: 'tv' })...` and featuredIds.
setFeaturedContent_topTv(t, natural) ==
    /\ At(t, "getFeaturedContent", "tv")
    /\ tasks' = Step(t, [tasks[t] EXCEPT !.pc = "flag",
                            !.list = tasks[t].list \o TopContent("tv", natural)])
    /\ UNCHANGED <<reviews, profiles, resp, call, probe, contentDocs>>

\* `await Content.updateMany({ _id: { $in: featuredIds } }, { featured: true })`
\* and the return to getFeaturedContent.
setFeaturedContent_flag(t) ==
    /\ At(t, "getFeaturedContent", "flag")
    /\ contentDocs' = [c \in CatalogIds |->
                          IF c \in Range(tasks[t].list)
                          THEN [contentDocs[c] EXCEPT !.featured = TRUE]
                          ELSE contentDocs[c]]
    /\ tasks' = Step(t, [tasks[t] EXCEPT !.pc = "reread"])
    /\ UNCHANGED <<reviews, profiles, resp, call, probe>>

\* getFeaturedContent after the invocation: the second
\* Content.find({ featured: true }) and the response.
getFeaturedContent_reread(t) ==
    /\ At(t, "getFeaturedContent", "reread")
    /\ tasks' = [tasks EXCEPT ![t] = Answered(t, 200)]
    /\ UNCHANGED <<reviews, profiles, resp, call, probe, contentDocs>>

\* fetchAndStoreTrending, one document: `existingMovie.popularity =
\* movie.popularity; await existingMovie.save()` (likewise existingTv).
fetchAndStoreTrending_save(c, popularity) ==
    /\ contentDocs[c].popularity # popularity
    /\ contentDocs' = [contentDocs EXCEPT ![c].popularity = popularity]
    /\ tasks' = [o \in Tasks |-> [tasks[o] EXCEPT !.alone = FALSE]]
    /\ UNCHANGED <<reviews, profiles, resp, call, probe>>

\* The documents TMDB's trending lists name, and the popularities they carry.
TrendingIds == {4, 5}
TrendingPopularities == {1, 1000}

FeaturedNext ==
    \/ \E t \in Tasks :
        \/ getFeaturedContent_find(t)
        \/ setFeaturedContent_reset(t)
        \/ \E natural \in ReadOrders(CatalogIds, ContentKey) :
                setFeaturedContent_topMovies(t, natural)
        \/ \E natural \in ReadOrders(CatalogIds, ContentKey) :
                setFeaturedContent_topTv(t, natural)
        \/ setFeaturedContent_flag(t)
        \/ getFeaturedContent_reread(t)
        \/ taskAnswered(t)
    \/ \E c \in TrendingIds, popularity \in TrendingPopularities :
            fetchAndStoreTrending_save(c, popularity)

FeaturedSpec == Init /\ [][FeaturedNext]_vars

(***************************************************************************)
(* The review requests alone, one after another, with the ratings a JSON   *)
(* body can carry: the schema's bounds 1 and 5, 0 and 6 outside them, and   *)
(* 3.5 between them.                                                        *)
(***************************************************************************)
ReviewRatingInputs == {0, 10, 35, 50, 60}

ReviewNext ==
    \/ \E u \in Users, contentId \in RequestContentIds,
          profileId \in WriteProfileIds, rating \in ReviewRatingInputs :
            createReview(u, contentId, profileId, rating)
    \/ \E u \in Users, id \in RequestReviewIds,
          rating \in ReviewRatingInputs \cup {NoRating} :
            updateReview(u, id, rating)
    \/ \E u \in Users, id \in RequestReviewIds : deleteReview(u, id)
    \/ responseSent

ReviewSpec == Init /\ [][ReviewNext]_vars

(***************************************************************************)
(* Properties of the recommendation request.  A state in which the engine  *)
(* has returned holds the request (call), the list (resp.data) and the     *)
(* store the call read, which the call leaves as it is.                    *)
(***************************************************************************)
\* The engine was invoked and returned the list resp.data.
EngineReturned == call.invoked /\ call.outcome = "returned"

\* The content ids the profile of the call has reviewed / has in its myList.
ReviewedIds == {r.content : r \in ReviewsOfProfile(call.profileId)}
WatchlistIds == Range(profiles[call.profileId].myList)

\* The content ids of the returned list.
Recommended == Range(resp.data)

\* C1: no content item the profile has reviewed, with whatever rating, is in
\* the list the engine returns.
C1_ReviewedNeverRecommended ==
    EngineReturned => Recommended \cap ReviewedIds = {}

ContentTypes == {"movie", "tv"}

\* c passes the type filter of the call, if the call has one.
MatchesType(c) == call.type = "absent" \/ Content[c].type = call.type

\* The corpus restricted to the type filter, by popularity descending and, at
\* equal popularity, by content id ascending.
PopularByTypeThenId ==
    SortDesc(Ascending({c \in ContentIds : MatchesType(c)}, ContentKey), Popularity)

\* C4: for a profile with no review and no watchlist entry the list is the
\* corpus restricted to the type filter, sorted by popularity descending, ties
\* by content id ascending, cut to limit.
C4_ColdStartList ==
    (/\ EngineReturned
     /\ ReviewedIds = {}
     /\ WatchlistIds = {}
     /\ call.limit > 0
     /\ call.type \in ContentTypes \cup {"absent"}) =>
        resp.data = SubSeq(PopularByTypeThenId, 1,
                           Min(call.limit, Len(PopularByTypeThenId)))

\* C5: profile p1 has the single review, rating 5, of item R (1), and an empty
\* watchlist; the call with limit 2 returns [A, C] = <<2, 4>>, without B (3).
C5_ScenarioReturnsAC ==
    (/\ EngineReturned
     /\ call.profileId = "p1"
     /\ call.limit = 2
     /\ reviews = {[user |-> "u1", profile |-> "p1", content |-> 1, rating |-> 50]}
     /\ profiles["p1"].myList = <<>>) =>
        resp.data = <<2, 4>>

\* C6: for a positive limit the returned list has at most limit items.
C6_AtMostLimit ==
    (EngineReturned /\ call.limit > 0) => Len(resp.data) <= call.limit

\* A scored call with limit 2 and three candidates returns two items.
C6_Witness ==
    /\ EngineReturned
    /\ call.branch = "scored"
    /\ call.limit = 2
    /\ Cardinality(ContentIds \ ReviewedIds) > 2
    /\ Len(resp.data) = 2

\* The items that are not reviewed, not watchlisted and pass the type filter.
Eligible == {c \in ContentIds \ (ReviewedIds \cup WatchlistIds) : MatchesType(c)}

\* The first three sortedGenres of the profile of the call.
FavoriteGenres ==
    LET profileReviews == Ascending(ReviewsOfProfile(call.profileId),
                                    ReviewKey(ReviewsOfProfile(call.profileId)))
    IN  Range(Slice0(sortedGenresOf(likedContentOf(profileReviews)), 3))

SharesFavoriteGenre(c) == Range(Content[c].genres) \cap FavoriteGenres # {}

\* C7: a call whose reads succeed, with at least limit eligible items, returns
\* a list of exactly limit items, also when fewer than limit of them share a
\* favorite genre.
C7_ExactlyLimit ==
    (/\ call.invoked
     /\ call.fail = "none"
     /\ call.limit > 0
     /\ Cardinality(Eligible) >= call.limit) =>
        /\ EngineReturned
        /\ Len(resp.data) = call.limit

\* C8: when the request carries a type filter, every returned item has that
\* type.
C8_TypeFilterApplied ==
    (EngineReturned /\ call.type \in ContentTypes) =>
        \A c \in Recommended : Content[c].type = call.type

\* C9: two calls with the same profile, limit and type on the same reviews,
\* watchlist and corpus return the same list: whatever order the store reads
\* in, a call returns the list of the call for which it reads in id order.
C9_SameInputsSameList ==
    EngineReturned =>
        resp.data =
            getRecommendationsForProfile(
                Ascending(ReviewsOfProfile(call.profileId),
                          ReviewKey(ReviewsOfProfile(call.profileId))),
                Ascending(ContentIds, ContentKey),
                call.limit, "none").recommendations

\* C10: the engine is not invoked for a request whose limit is not positive or
\* whose type filter is not a content type.
C10_InvalidInputRejected ==
    call.invoked =>
        /\ call.limit > 0
        /\ call.type \in ContentTypes \cup {"absent"}

(***************************************************************************)
(* Properties of the engine's inputs and effects.                          *)
(***************************************************************************)
\* The reviews of the profile of the call, read off the Review collection.
OwnReviews == {r \in reviews : r.profile = call.profileId}

\* The lists the engine computes from the given reviews and the stored
\* corpus alone, over the orders in which the store can read them.
ListsFrom(S) ==
    {getRecommendationsForProfile(profileReviews, natural, call.limit, "none")
            .recommendations :
        profileReviews \in ReadOrders(S, ReviewKey(S)),
        natural \in ReadOrders(ContentIds, ContentKey)}

C12_EngineWritesNothing ==
    [][call'.invoked => (reviews' = reviews /\ profiles' = profiles)]_vars

\* The engine threw, without any failing read, on a store that holds reviews
\* and a myList entry.
C12_Witness ==
    /\ call.invoked
    /\ call.outcome = "threw"
    /\ call.fail = "none"
    /\ reviews # {}
    /\ profiles[call.profileId].myList # <<>>

(***************************************************************************)
(* Properties of the affinity weights and of the branch taken.             *)
(***************************************************************************)
GenreIds == {Action, Drama, Comedy, Thriller}
KeywordIds == {Heist}

\* The weight a Map of counts gives an id: its count, 0 for an id it lacks.
Weight(map, id) == IF id \in DOMAIN map THEN map[id] ELSE 0

\* The engine was invoked on reviews whose content all resolved.
ProbeResolved == probe.applied /\ ~HasNullContent(probe.profileReviews)

\* likedGenres and likedKeywords of the invocation.
ProbeLikedGenres == MapCounts(GenreIdsOf(likedContentOf(probe.profileReviews)))
ProbeLikedKeywords == MapCounts(KeywordIdsOf(likedContentOf(probe.profileReviews)))

\* The number of the given reviews of rating >= 3 whose content carries the
\* genre id (the keyword id).
LikedReviewsWithGenre(g) ==
    Cardinality({i \in DOMAIN probe.profileReviews :
                    /\ probe.profileReviews[i].rating >= 30
                    /\ g \in Range(Content[probe.profileReviews[i].content].genres)})
LikedReviewsWithKeyword(k) ==
    Cardinality({i \in DOMAIN probe.profileReviews :
                    /\ probe.profileReviews[i].rating >= 30
                    /\ k \in Range(Content[probe.profileReviews[i].content].keywords)})

\* C13: the weight of a genre id, and of a keyword id, is the number of the
\* profile's reviews of rating >= 3 whose content carries the id; reviews of
\* rating below 3 add nothing.
C13_WeightCountsLikedReviews ==
    ProbeResolved =>
        /\ \A g \in GenreIds : Weight(ProbeLikedGenres, g) = LikedReviewsWithGenre(g)
        /\ \A k \in KeywordIds : Weight(ProbeLikedKeywords, k) = LikedReviewsWithKeyword(k)

\* The myList of the profile of the call holds an item that carries a genre
\* or a keyword.
TaggedWatchlist ==
    \E c \in WatchlistIds : Content[c].genres # <<>> \/ Content[c].keywords # <<>>

ProbeColdStart == probe.branch \in {"noReviews", "noLiked"}

\* The invocation was given a review of rating >= 3.
ProbeHasLikedReview ==
    \E i \in DOMAIN probe.profileReviews : probe.profileReviews[i].rating >= 30

\* C15: the popularity-only branch is taken exactly when the genre weights
\* and the keyword weights are both empty.
C15_ColdStartIffNoWeights ==
    (ProbeResolved /\ probe.outcome = "returned") =>
        (ProbeColdStart <=> (DOMAIN ProbeLikedGenres = {} /\ DOMAIN ProbeLikedKeywords = {}))

\* C15, amended: the popularity-only branch is taken exactly when the profile
\* has no review of rating >= 3, whatever tags the liked content carries.
C15_ColdStartIffNoLikedReview ==
    probe.applied =>
        IF ProbeHasLikedReview
        THEN ~ProbeColdStart
        ELSE probe.outcome = "returned" /\ ProbeColdStart

\* The scored branch returned for a profile whose only liked content has no
\* genre and no keyword.
C15_Witness ==
    /\ ProbeResolved
    /\ ProbeHasLikedReview
    /\ DOMAIN ProbeLikedGenres = {}
    /\ DOMAIN ProbeLikedKeywords = {}
    /\ probe.branch = "scored"

\* The n ids of highest weight of a Map of counts, ids of equal weight in
\* ascending order of id.
TopByWeightThenId(map, n) ==
    Slice0(SortDesc(Ascending(DOMAIN map, [k \in DOMAIN map |-> k]), map), n)

\* C16: the favorite genres are the 3 genre ids of highest weight and the
\* favorite keywords the 5 keyword ids of highest weight, ids of equal weight
\* taken in ascending order of id, whatever the order of the reviews.
C16_FavoritesByWeightThenId ==
    (ProbeResolved /\ ProbeHasLikedReview) =>
        LET likedContent == likedContentOf(probe.profileReviews)
        IN  /\ Range(Slice0(sortedGenresOf(likedContent), 3))
                   = Range(TopByWeightThenId(ProbeLikedGenres, 3))
            /\ Range(Slice0(sortedKeywordsOf(likedContent), 5))
                   = Range(TopByWeightThenId(ProbeLikedKeywords, 5))

(***************************************************************************)
(* Properties of the scored branch.                                        *)
(***************************************************************************)
\* The call returned from the scored branch.
ScoredReturned == EngineReturned /\ call.branch = "scored"

\* likedContent of the call, and the score it gives a candidate.
CallLikedContent == likedContentOf(Ascending(OwnReviews, ReviewKey(OwnReviews)))
CallScore(c) == score(c, CallLikedContent)

CallSimilarity(c, i) ==
    Tfidf(DocText(c), i, [k \in DOMAIN CallLikedContent |-> DocText(CallLikedContent[k])])

\* The sum of a function over 1..n, and the largest of its values and 0.
RECURSIVE SumTo(_, _)
SumTo(f, n) == IF n = 0 THEN 0 ELSE f[n] + SumTo(f, n - 1)
RECURSIVE MaxTo(_, _)
MaxTo(f, n) == IF n = 0 THEN 0 ELSE Max(f[n], MaxTo(f, n - 1))

\* The composite score as stated: average similarity, maximum similarity, 0.2
\* per genre shared with the favorite genres, 0.1 per keyword shared with the
\* favorite keywords, popularity / 20.
StatedScore(c) ==
    LET n == Len(CallLikedContent)
        sim == [i \in 1..n |-> CallSimilarity(c, i)]
        favoriteGenres == Range(Slice0(sortedGenresOf(CallLikedContent), 3))
        favoriteKeywords == Range(Slice0(sortedKeywordsOf(CallLikedContent), 5))
    IN  (SumTo(sim, n) \div n) + MaxTo(sim, n)
          + ((2 * ScoreScale) \div 10)
                * Cardinality(Range(Content[c].genres) \cap favoriteGenres)
          + (ScoreScale \div 10)
                * Cardinality(Range(Content[c].keywords) \cap favoriteKeywords)
          + (Content[c].popularity * ScoreScale) \div 20

ProbeCandidates ==
    Range(allContentOf(probe.natural, reviewedContentIdsOf(probe.profileReviews)))

\* C19: the genre bonus of a candidate is at most 0.6 and its keyword bonus at
\* most 0.5, for every content record, also one whose list repeats an id.
C19_BonusCaps ==
    (ProbeResolved /\ ProbeHasLikedReview) =>
        LET likedContent == likedContentOf(probe.profileReviews)
        IN  \A c \in ProbeCandidates :
                /\ genreBonus(c, sortedGenresOf(likedContent)) <= (6 * ScoreScale) \div 10
                /\ keywordBonus(c, sortedKeywordsOf(likedContent)) <= (5 * ScoreScale) \div 10

\* C20: the list of the scored branch is in descending order of score, and
\* items of equal score are in ascending order of content id, whatever order
\* the store read them in.
C20_ScoreThenIdOrder ==
    ScoredReturned =>
        \A i, j \in DOMAIN resp.data :
            i < j =>
                \/ CallScore(resp.data[i]) > CallScore(resp.data[j])
                \/ /\ CallScore(resp.data[i]) = CallScore(resp.data[j])
                   /\ resp.data[i] < resp.data[j]

\* No element occurs twice in the sequence.
NoDuplicates(s) == \A i, j \in DOMAIN s : i # j => s[i] # s[j]

\* Fewer unreviewed items share a favorite genre than the call's limit asks
\* for.
BackfillNeeded ==
    Cardinality({c \in ContentIds \ ReviewedIds : SharesFavoriteGenre(c)}) < call.limit

ProbeResolvedReviews ==
    LET Resolved(review) == review.content # NullContent
    IN  SelectSeq(probe.profileReviews, Resolved)

\* C22: a review whose content is null is skipped: the invocation returns the
\* list computed from the other reviews, whatever the rating of that review.
C22_UnresolvedReviewSkipped ==
    (probe.applied /\ ~ProbeResolved) =>
        /\ probe.outcome = "returned"
        /\ probe.recommendations =
               getRecommendationsForProfile(ProbeResolvedReviews, probe.natural,
                                            probe.limit, "none").recommendations

\* The invocation seen as a baseline plus one review: the reviews but the last
\* are the baseline, the last one is the review added.
BaselineReviews == SubSeq(probe.profileReviews, 1, Len(probe.profileReviews) - 1)
AddedReview == probe.profileReviews[Len(probe.profileReviews)]
BaselineLikedGenres == MapCounts(GenreIdsOf(likedContentOf(BaselineReviews)))

\* The genres of the added review's content that the baseline gives no weight.
NewGenres == Range(Content[AddedReview.content].genres) \ DOMAIN BaselineLikedGenres

\* The added review has 5 stars and brings a genre the baseline does not have.
AddsNewGenre ==
    /\ ProbeResolved
    /\ Len(probe.profileReviews) >= 1
    /\ AddedReview.rating = 50
    /\ NewGenres # {}

\* C23: against the baseline, a 5-star review of an item carrying a genre g
\* new to the profile raises the weight of g, lowers no genre's weight, and,
\* the baseline being scored, the call still returns and gives no candidate
\* that carries g a lower score than the baseline does.
C23_NewGenreNeverLowersScore ==
    AddsNewGenre =>
        /\ \A g \in NewGenres :
               Weight(ProbeLikedGenres, g) > Weight(BaselineLikedGenres, g)
        /\ \A g \in GenreIds :
               Weight(ProbeLikedGenres, g) >= Weight(BaselineLikedGenres, g)
        /\ likedContentOf(BaselineReviews) # <<>> =>
               /\ probe.outcome = "returned"
               /\ \A c \in ProbeCandidates :
                      Range(Content[c].genres) \cap NewGenres # {} =>
                          score(c, likedContentOf(probe.profileReviews))
                              >= score(c, likedContentOf(BaselineReviews))

(***************************************************************************)
(* Properties of the request handlers.                                     *)
(***************************************************************************)
\* C27: a getRecommendations request whose profile id names no profile, or a
\* profile of another user, answers 404 without invoking the engine and
\* without any list, so the engine is invoked only after the profile was
\* found among the requesting user's own.
C27_EngineBehindOwnership ==
    [][resp'.handler = "getRecommendations" =>
       \A u \in Users, profileId \in RequestProfileIds, limitQuery \in LimitQueries,
         typeQuery \in TypeQueries, fail \in FailPoints :
            (/\ ~(profileId \in ProfileIds /\ ProfileOwner[profileId] = u)
             /\ getRecommendations(u, profileId, limitQuery, typeQuery, fail))
                => /\ ~call'.invoked
                   /\ resp'.status = 404
                   /\ resp'.data = <<>>]_vars

\* A getRecommendations request answered 404 while the store holds reviews.
C27_Witness ==
    /\ resp.handler = "getRecommendations"
    /\ resp.status = 404
    /\ ~call.invoked
    /\ reviews # {}

\* What an updateReview or deleteReview request of user u for review id must
\* have done.
OwnerOnly(u, id) ==
    IF ~\E r \in reviews : ReviewId(r) = id
    THEN resp'.status = 404 /\ reviews' = reviews
    ELSE IF \E r \in reviews : ReviewId(r) = id /\ r.user # u
    THEN resp'.status = 403 /\ reviews' = reviews
    ELSE \A r \in reviews : ReviewId(r) # id => r \in reviews'

\* C29: updateReview and deleteReview change or remove a review only for the
\* review's user; another requester gets 403 and an unknown review id 404,
\* the store unchanged.
C29_OnlyOwnerChangesReview ==
    [][resp'.handler \in {"updateReview", "deleteReview"} =>
       \A u \in Users, id \in RequestReviewIds :
            /\ deleteReview(u, id) => OwnerOnly(u, id)
            /\ \A rating \in RatingInputs \cup {NoRating} :
                   updateReview(u, id, rating) => OwnerOnly(u, id)]_vars

\* An updateReview or deleteReview request of another user was answered 403.
C29_Witness ==
    /\ resp.handler \in {"updateReview", "deleteReview"}
    /\ resp.status = 403
    /\ reviews # {}

\* The ratings that are whole numbers of stars, 1 to 5.
IntegerRatings == {10, 20, 30, 40, 50}

\* C25: every stored review has a rating that is an integer between 1 and 5
\* inclusive, whatever createReview and updateReview requests were made.
C25_StoredRatingsIntegral ==
    \A r \in reviews : r.rating \in IntegerRatings

(***************************************************************************)
(* Properties of requests in flight together.                              *)
(***************************************************************************)
\* The store holds a review of the (profile, content) pair.
Reviewed(profileId, contentId) ==
    \E r \in reviews : r.profile = profileId /\ r.content = contentId

C26_MyListHoldsNoIdTwice ==
    \A p \in DOMAIN profiles : NoDuplicates(profiles[p].myList)

\* C28: no user owns more than 5 profiles, at every point of every
\* interleaving of that user's createProfile and deleteProfile requests.
C28_AtMostFiveProfiles ==
    \A u \in Users : Cardinality(ProfilesOf(u)) <= 5

\* The featured documents of a type.
FeaturedOfType(type) == {c \in Featured : Content[c].type = type}

\* No invocation of setFeaturedContent is under way.
NoInvocation == \A t \in Tasks : tasks[t].pc \notin InvocationPcs

\* The featured documents of the type are two, and no other document of the
\* type is more popular than one of them.
TopTwoFeatured(type) ==
    /\ Cardinality(FeaturedOfType(type)) = 2
    /\ \A c \in FeaturedOfType(type), d \in CatalogIds \ Featured :
           Content[d].type = type =>
               contentDocs[c].popularity >= contentDocs[d].popularity

\* An invocation that nothing interrupted leaves exactly the 2 most popular
\* movies and the 2 most popular tv items featured.
UninterruptedLeavesTopTwo ==
    \A t \in Tasks :
        (tasks[t].pc = "reread" /\ tasks[t].alone) =>
            (TopTwoFeatured("movie") /\ TopTwoFeatured("tv"))

\* C30: whenever no setFeaturedContent invocation is under way, at most 4
\* documents are featured, at most 2 movies and at most 2 tv items, and an
\* invocation that nothing interrupted leaves exactly the 2 most popular of
\* each type featured.
C30_AtMostTwoFeaturedPerType ==
    /\ NoInvocation =>
           /\ Cardinality(Featured) <= 4
           /\ Cardinality(FeaturedOfType("movie")) <= 2
           /\ Cardinality(FeaturedOfType("tv")) <= 2
    /\ UninterruptedLeavesTopTwo

====
